---- MODULE Spec2Model ----
(***************************************************************************)
(* Model of kubernetes.go: the resource dispatcher (createNamespace,       *)
(* checkResourceExist, createResource, destroyResource and its two         *)
(* cascades) running against a cluster API.  Every API call is one atomic  *)
(* step against the cluster; the calls a caller issued during its current  *)
(* operation are recorded, with their results, in log.                     *)
(***************************************************************************)
EXTENDS Integers, Sequences, FiniteSets, TLC

VARIABLES
    namespaces,   \* the namespaces that exist in the cluster
    objects,      \* the namespaced objects that exist in the cluster
    pc,           \* pc[p]: where caller p stands in its operation
    args,         \* args[p]: the operation p runs and its arguments
    log,          \* log[p]: the API calls p issued in this operation, in order
    ret,          \* ret[p]: what the operation returned: [exists, err]
    listed,       \* listed[p]: the Items of the cascade's list call
    items,        \* items[p]: the Items the range loop has still to visit
    opsLeft       \* operations that may still be started

vars == <<namespaces, objects, pc, args, log, ret, listed, items, opsLeft>>

----------------------------------------------------------------------------
\* Bounds of the model.

MaxOps == 1            \* operations one caller starts in one behaviour
MaxChildren == 2       \* replica sets and pods in the cluster at one time

Procs == {1, 2}
Namespaces == {"prod", "dev"}      \* the namespaces that exist at the start
NewNamespaces == {"test"}          \* a namespace that does not

\* A resource name may be longer than a label value may be: LongName is a
\* name of 64 characters, for which labels.Parse rejects "name=" + name.
LongName == "a123456789b123456789c123456789d123456789e123456789f123456789g123"
Names == {"web", LongName}

----------------------------------------------------------------------------
\* Kinds.

CascadeKinds == {"deployment", "job"}
SimpleKinds == {"service", "persistentvolumeclaim", "configmap", "petset"}
ChildKinds == {"replicaset", "pod"}
Kinds == CascadeKinds \cup SimpleKinds \cup {"ingress"}

----------------------------------------------------------------------------
\* Errors.  nil is Nil; a *errors.StatusError carries the status code; any
\* other error is of type "other" (its code field is what a careless
\* classification might read).

StatusNotFound == 404

Nil == [type |-> "nil", code |-> 0, kind |-> ""]
StatusError(code) == [type |-> "status", code |-> code, kind |-> ""]
NotFound == StatusError(404)
AlreadyExists == StatusError(409)
InternalError == StatusError(500)
OtherError == [type |-> "other", code |-> 404, kind |-> ""]
ParseError == [type |-> "parse", code |-> 0, kind |-> ""]
UnsupportedResource(kind) == [type |-> "unsupported", code |-> 0, kind |-> kind]

\* Failures of the transport or the server that any call may meet.
Faults == {InternalError, OtherError}

\* Mutations of isResourceNotExist: the code of any error read without the
\* type switch; any status error taken for "not found".
isResourceNotExistAnyType(err) == err.code = StatusNotFound
isResourceNotExistAnyStatus(err) == err.type = "status"

isResourceNotExist(err) ==
    IF err.type = "status"
    THEN IF err.code = StatusNotFound THEN TRUE ELSE FALSE
    ELSE FALSE

----------------------------------------------------------------------------
\* Calls.

GracePeriod == 0
NoGrace == 0 - 1       \* a call that carries no delete options
NoSelector == [key |-> "", value |-> ""]
NoPayload == [type |-> "", name |-> ""]

Call(verb, kind, ns, name, sel, grace, payload, res) ==
    [verb |-> verb, kind |-> kind, ns |-> ns, name |-> name, sel |-> sel,
     grace |-> grace, payload |-> payload, res |-> res]

GetCall(kind, ns, name, res) ==
    Call("get", kind, ns, name, NoSelector, NoGrace, NoPayload, res)
CreateCall(kind, ns, payload, res) ==
    Call("create", kind, ns, payload.name, NoSelector, NoGrace, payload, res)
DeleteCall(kind, ns, name, grace, res) ==
    Call("delete", kind, ns, name, NoSelector, grace, NoPayload, res)
ListCall(kind, ns, sel, res) ==
    Call("list", kind, ns, "", sel, NoGrace, NoPayload, res)

Object(kind, ns, name, label) ==
    [kind |-> kind, ns |-> ns, name |-> name, label |-> label]
Label(key, value) == [key |-> key, value |-> value]

----------------------------------------------------------------------------
\* The cluster API: the responses a call may get in the current cluster
\* state.  A call that gets Nil has taken effect; a failed call has not.

Present(kind, ns, name) ==
    \E o \in objects : o.kind = kind /\ o.ns = ns /\ o.name = name

GetResponses(present) ==
    (IF present THEN {Nil} ELSE {NotFound}) \cup Faults

CreateResponses(present) ==
    (IF present THEN {AlreadyExists} ELSE {Nil}) \cup Faults

DeleteResponses(present) ==
    (IF present THEN {Nil} ELSE {NotFound}) \cup Faults

ListResponses == {Nil} \cup Faults

Created(kind, ns, name, res) ==
    IF res = Nil
    THEN objects \cup {Object(kind, ns, name, NoSelector)}
    ELSE objects

Deleted(kind, ns, name, res) ==
    IF res = Nil
    THEN {o \in objects : ~(o.kind = kind /\ o.ns = ns /\ o.name = name)}
    ELSE objects

\* The objects a list call with a label selector returns.
Matching(kind, ns, sel) ==
    {o \in objects : o.kind = kind /\ o.ns = ns /\ o.label = sel}

\* The orders in which a list call may return the elements of S.
Orders(S) ==
    {s \in [1..Cardinality(S) -> S] : \A i, j \in 1..Cardinality(S) : i # j => s[i] # s[j]}

LabelValueMaxLength == 63

\* labels.Parse(key + "=" + name): the selector, or ParseError.
ParseSelector(key, name) ==
    IF Len(name) > LabelValueMaxLength
    THEN [err |-> ParseError, sel |-> NoSelector]
    ELSE [err |-> Nil, sel |-> [key |-> key, value |-> name]]

----------------------------------------------------------------------------
\* The state at the start: the cluster has the namespaces of Namespaces, in
\* "prod" an object of every recognized kind under every name and in "dev"
\* none, no replica sets and no pods; no caller has started anything.

NoArgs == [op |-> "", kind |-> "", name |-> "", ns |-> ""]
NoResult == [exists |-> FALSE, err |-> Nil]
Result(exists, err) == [exists |-> exists, err |-> err]

Init ==
    /\ namespaces = Namespaces
    /\ objects = {Object(kind, "prod", name, NoSelector) :
                    kind \in CascadeKinds \cup SimpleKinds, name \in Names}
    /\ pc = [p \in Procs |-> "idle"]
    /\ args = [p \in Procs |-> NoArgs]
    /\ log = [p \in Procs |-> <<>>]
    /\ ret = [p \in Procs |-> NoResult]
    /\ listed = [p \in Procs |-> <<>>]
    /\ items = [p \in Procs |-> <<>>]
    /\ opsLeft = [p \in Procs |-> MaxOps]

\* Caller p calls op: a caller runs one operation at a time.
Begin(p, op, kind, name, ns) ==
    /\ pc[p] = "idle"
    /\ opsLeft[p] > 0
    /\ opsLeft' = [opsLeft EXCEPT ![p] = @ - 1]
    /\ args' = [args EXCEPT ![p] =
                  [op |-> op, kind |-> kind, name |-> name, ns |-> ns]]
    /\ listed' = [listed EXCEPT ![p] = <<>>]
    /\ items' = [items EXCEPT ![p] = <<>>]

\* The operation of p returns.
Return(p, result) ==
    /\ pc' = [pc EXCEPT ![p] = "done"]
    /\ ret' = [ret EXCEPT ![p] = result]

\* The caller has taken the result of its operation and may start another.
Finish(p) ==
    /\ pc[p] = "done"
    /\ pc' = [pc EXCEPT ![p] = "idle"]
    /\ args' = [args EXCEPT ![p] = NoArgs]
    /\ log' = [log EXCEPT ![p] = <<>>]
    /\ ret' = [ret EXCEPT ![p] = NoResult]
    /\ listed' = [listed EXCEPT ![p] = <<>>]
    /\ items' = [items EXCEPT ![p] = <<>>]
    /\ UNCHANGED <<namespaces, objects, opsLeft>>

\* The operation of p goes on at label.
Goto(p, label) ==
    /\ pc' = [pc EXCEPT ![p] = label]
    /\ ret' = [ret EXCEPT ![p] = NoResult]

----------------------------------------------------------------------------
\* createNamespace, lines 48-63.  The get and the create are two calls, and
\* another caller's call may come between them.

NamespacePayload(namespace) == [type |-> "Namespace", name |-> namespace]

createNamespace(p, namespace) ==
    /\ Begin(p, "createNamespace", "namespace", namespace, "")
    /\ \E err \in GetResponses(namespace \in namespaces) :
         /\ log' = [log EXCEPT ![p] = <<GetCall("namespace", "", namespace, err)>>]
         /\ IF err = Nil
            THEN Return(p, Result(FALSE, Nil))
            ELSE IF ~isResourceNotExist(err)
                 THEN Return(p, Result(FALSE, err))
                 ELSE Goto(p, "nsCreate")
    /\ UNCHANGED <<namespaces, objects>>

createNamespaceCreate(p) ==
    /\ pc[p] = "nsCreate"
    /\ LET namespace == args[p].name IN
       \E err \in CreateResponses(namespace \in namespaces) :
         /\ log' = [log EXCEPT ![p] =
                      Append(@, CreateCall("namespace", "", NamespacePayload(namespace), err))]
         /\ namespaces' = IF err = Nil THEN namespaces \cup {namespace} ELSE namespaces
         /\ Return(p, Result(FALSE, err))
    /\ UNCHANGED <<objects, args, listed, items, opsLeft>>

----------------------------------------------------------------------------
\* checkResourceExist, lines 65-90.

ExistCase(kind) ==
    IF kind \in {"deployment", "service", "job", "persistentvolumeclaim",
                 "configmap", "petset"}
    THEN kind
    ELSE "default"

checkResourceExist(p, kind, name, namespace) ==
    /\ Begin(p, "checkResourceExist", kind, name, namespace)
    /\ LET case == ExistCase(kind) IN
       IF case = "default"
       THEN /\ log' = [log EXCEPT ![p] = <<>>]
            /\ Return(p, Result(FALSE, UnsupportedResource(kind)))
       ELSE \E err \in GetResponses(Present(case, namespace, name)) :
              /\ log' = [log EXCEPT ![p] = <<GetCall(case, namespace, name, err)>>]
              /\ IF err = Nil
                 THEN Return(p, Result(TRUE, Nil))
                 ELSE IF isResourceNotExist(err)
                      THEN Return(p, Result(FALSE, Nil))
                      ELSE Return(p, Result(FALSE, err))
    /\ UNCHANGED <<namespaces, objects>>

----------------------------------------------------------------------------
\* createResource, lines 92-111.  The payload is asserted to be of the type
\* of the kind's arm; a failed assertion panics before any call.

CreateCase(kind) ==
    IF kind \in {"deployment", "service", "job", "persistentvolumeclaim",
                 "configmap", "petset"}
    THEN kind
    ELSE "default"

\* The payload types are named by the kind they are the type of.
PayloadTypes == CascadeKinds \cup SimpleKinds
Payloads == [type : PayloadTypes, name : Names]

\* The typed create call of an arm, lines 96-106, and the return of line 110.
typedCreateIfAbsent(p, case, namespace, resourceData) ==
    IF Present(case, namespace, resourceData.name)
    THEN /\ log' = [log EXCEPT ![p] = <<GetCall(case, namespace, resourceData.name, Nil)>>]
         /\ Return(p, Result(FALSE, Nil))
         /\ UNCHANGED objects
    ELSE \E err \in CreateResponses(FALSE) :
           /\ log' = [log EXCEPT ![p] = <<CreateCall(case, namespace, resourceData, err)>>]
           /\ objects' = Created(case, namespace, resourceData.name, err)
           /\ Return(p, Result(FALSE, err))

typedCreate(p, case, namespace, resourceData) ==
    \E err \in CreateResponses(Present(case, namespace, resourceData.name)) :
      /\ log' = [log EXCEPT ![p] = <<CreateCall(case, namespace, resourceData, err)>>]
      /\ objects' = Created(case, namespace, resourceData.name, err)
      /\ Return(p, Result(FALSE, err))

createResource(p, kind, namespace, resourceData) ==
    /\ Begin(p, "createResource", kind, resourceData.name, namespace)
    /\ LET case == CreateCase(kind) IN
       IF case = "default"
       THEN /\ log' = [log EXCEPT ![p] = <<>>]
            /\ Return(p, Result(FALSE, UnsupportedResource(kind)))
            /\ UNCHANGED objects
       ELSE IF resourceData.type # case
       THEN /\ log' = [log EXCEPT ![p] = <<>>]
            /\ Goto(p, "panic")
            /\ UNCHANGED objects
       ELSE typedCreate(p, case, namespace, resourceData)
    /\ UNCHANGED namespaces

----------------------------------------------------------------------------
\* api.NewDeleteOptions(0): the grace period every delete is issued with.
NewDeleteOptionsGraceful == GracePeriod + 30
NewDeleteOptions == GracePeriod

\* labels.Parse("name=" + name), line 141.
replicaSetSelectorByApp(name) == ParseSelector("app", name)
replicaSetSelector(name) == ParseSelector("name", name)

\* destroyDeployment, lines 135-158: delete the deployment, parse the
\* selector, list the replica sets, delete each listed replica set.  Each
\* call is a step of its own.

destroyDeployment(p, name, namespace) ==
    \E err \in DeleteResponses(Present("deployment", namespace, name)) :
      /\ log' = [log EXCEPT ![p] =
                   <<DeleteCall("deployment", namespace, name, NewDeleteOptions, err)>>]
      /\ objects' = Deleted("deployment", namespace, name, err)
      /\ IF err # Nil
         THEN Return(p, Result(FALSE, err))
         ELSE IF replicaSetSelector(name).err # Nil
              THEN Return(p, Result(FALSE, replicaSetSelector(name).err))
              ELSE Goto(p, "listReplicaSets")

listReplicaSets(p) ==
    /\ pc[p] = "listReplicaSets"
    /\ LET namespace == args[p].ns
           selector == replicaSetSelector(args[p].name).sel
       IN \E err \in ListResponses :
            IF err # Nil
            THEN /\ log' = [log EXCEPT ![p] =
                              Append(@, ListCall("replicaset", namespace, selector, err))]
                 /\ Return(p, Result(FALSE, err))
                 /\ UNCHANGED <<listed, items>>
            ELSE \E found \in Orders({o.name : o \in Matching("replicaset", namespace, selector)}) :
                   /\ log' = [log EXCEPT ![p] =
                                Append(@, ListCall("replicaset", namespace, selector, Nil))]
                   /\ listed' = [listed EXCEPT ![p] = found]
                   /\ items' = [items EXCEPT ![p] = found]
                   /\ IF found = <<>>
                      THEN Return(p, Result(FALSE, Nil))
                      ELSE Goto(p, "deleteReplicaSets")
    /\ UNCHANGED <<namespaces, objects, args, opsLeft>>

\* Mutation of the loop of lines 151-156: a failed delete does not end it.
deleteReplicaSetIgnoringErrors(p) ==
    /\ pc[p] = "deleteReplicaSets"
    /\ LET namespace == args[p].ns
           child == Head(items[p])
       IN \E err \in DeleteResponses(Present("replicaset", namespace, child)) :
            /\ log' = [log EXCEPT ![p] =
                         Append(@, DeleteCall("replicaset", namespace, child, NewDeleteOptions, err))]
            /\ objects' = Deleted("replicaset", namespace, child, err)
            /\ items' = [items EXCEPT ![p] = Tail(@)]
            /\ IF Tail(items[p]) = <<>>
               THEN Return(p, Result(FALSE, Nil))
               ELSE Goto(p, "deleteReplicaSets")
    /\ UNCHANGED <<namespaces, args, listed, opsLeft>>

deleteReplicaSet(p) ==
    /\ pc[p] = "deleteReplicaSets"
    /\ LET namespace == args[p].ns
           child == Head(items[p])
       IN \E err \in DeleteResponses(Present("replicaset", namespace, child)) :
            /\ log' = [log EXCEPT ![p] =
                         Append(@, DeleteCall("replicaset", namespace, child, NewDeleteOptions, err))]
            /\ objects' = Deleted("replicaset", namespace, child, err)
            /\ IF err # Nil
               THEN /\ Return(p, Result(FALSE, err))
                    /\ UNCHANGED items
               ELSE /\ items' = [items EXCEPT ![p] = Tail(@)]
                    /\ IF Tail(items[p]) = <<>>
                       THEN Return(p, Result(FALSE, Nil))
                       ELSE Goto(p, "deleteReplicaSets")
    /\ UNCHANGED <<namespaces, args, listed, opsLeft>>

\* labels.Parse("job-name=" + name), line 166.
podSelectorByName(name) == ParseSelector("name", name)
podSelector(name) == ParseSelector("job-name", name)

\* destroyJob, lines 160-183: delete the job, parse the selector, list the
\* pods, delete each listed pod.  Each call is a step of its own.

destroyJob(p, name, namespace) ==
    \E err \in DeleteResponses(Present("job", namespace, name)) :
      /\ log' = [log EXCEPT ![p] =
                   <<DeleteCall("job", namespace, name, NewDeleteOptions, err)>>]
      /\ objects' = Deleted("job", namespace, name, err)
      /\ IF err # Nil
         THEN Return(p, Result(FALSE, err))
         ELSE IF podSelector(name).err # Nil
              THEN Return(p, Result(FALSE, podSelector(name).err))
              ELSE Goto(p, "listPods")

listPods(p) ==
    /\ pc[p] = "listPods"
    /\ LET namespace == args[p].ns
           selector == podSelector(args[p].name).sel
       IN \E err \in ListResponses :
            IF err # Nil
            THEN /\ log' = [log EXCEPT ![p] =
                              Append(@, ListCall("pod", namespace, selector, err))]
                 /\ Return(p, Result(FALSE, err))
                 /\ UNCHANGED <<listed, items>>
            ELSE \E found \in Orders({o.name : o \in Matching("pod", namespace, selector)}) :
                   /\ log' = [log EXCEPT ![p] =
                                Append(@, ListCall("pod", namespace, selector, Nil))]
                   /\ listed' = [listed EXCEPT ![p] = found]
                   /\ items' = [items EXCEPT ![p] = found]
                   /\ IF found = <<>>
                      THEN Return(p, Result(FALSE, Nil))
                      ELSE Goto(p, "deletePods")
    /\ UNCHANGED <<namespaces, objects, args, opsLeft>>

\* Mutation of the loop of lines 176-181: it goes on while the cluster has a
\* matching pod, instead of ranging over the pods of the list.
deletePodUntilNone(p) ==
    /\ pc[p] = "deletePods"
    /\ LET namespace == args[p].ns
           live == Matching("pod", namespace, podSelector(args[p].name).sel)
       IN IF live = {}
          THEN /\ Return(p, Result(FALSE, Nil))
               /\ UNCHANGED <<log, objects, items>>
          ELSE \E o \in live, err \in DeleteResponses(TRUE) :
                 /\ log' = [log EXCEPT ![p] =
                              Append(@, DeleteCall("pod", namespace, o.name, NewDeleteOptions, err))]
                 /\ objects' = Deleted("pod", namespace, o.name, err)
                 /\ UNCHANGED items
                 /\ IF err # Nil
                    THEN Return(p, Result(FALSE, err))
                    ELSE Goto(p, "deletePods")
    /\ UNCHANGED <<namespaces, args, listed, opsLeft>>

deletePod(p) ==
    /\ pc[p] = "deletePods"
    /\ LET namespace == args[p].ns
           child == Head(items[p])
       IN \E err \in DeleteResponses(Present("pod", namespace, child)) :
            /\ log' = [log EXCEPT ![p] =
                         Append(@, DeleteCall("pod", namespace, child, NewDeleteOptions, err))]
            /\ objects' = Deleted("pod", namespace, child, err)
            /\ IF err # Nil
               THEN /\ Return(p, Result(FALSE, err))
                    /\ UNCHANGED items
               ELSE /\ items' = [items EXCEPT ![p] = Tail(@)]
                    /\ IF Tail(items[p]) = <<>>
                       THEN Return(p, Result(FALSE, Nil))
                       ELSE Goto(p, "deletePods")
    /\ UNCHANGED <<namespaces, args, listed, opsLeft>>

----------------------------------------------------------------------------
\* destroyResource, lines 113-133.

DestroyCaseWithIngress(kind) ==
    IF kind \in {"deployment", "service", "job", "persistentvolumeclaim",
                 "configmap", "petset", "ingress"}
    THEN kind
    ELSE "default"

DestroyCase(kind) ==
    IF kind \in {"deployment", "service", "job", "persistentvolumeclaim",
                 "configmap", "petset"}
    THEN kind
    ELSE "default"

destroyResource(p, kind, name, namespace) ==
    /\ Begin(p, "destroyResource", kind, name, namespace)
    /\ LET case == DestroyCase(kind) IN
       IF case = "deployment"
       THEN destroyDeployment(p, name, namespace)
       ELSE IF case = "job"
       THEN destroyJob(p, name, namespace)
       ELSE IF case = "default"
       THEN /\ log' = [log EXCEPT ![p] = <<>>]
            /\ Return(p, Result(FALSE, UnsupportedResource(kind)))
            /\ UNCHANGED objects
       ELSE \E err \in DeleteResponses(Present(case, namespace, name)) :
              /\ log' = [log EXCEPT ![p] =
                           <<DeleteCall(case, namespace, name, NewDeleteOptions, err)>>]
              /\ objects' = Deleted(case, namespace, name, err)
              /\ Return(p, Result(FALSE, err))
    /\ UNCHANGED namespaces

----------------------------------------------------------------------------
\* The cluster's own controllers: at any time one may create a replica set
\* or a pod, labelled for some owner, in an existing namespace.

ChildUniverse ==
    { Object("replicaset", "prod", "rs1", Label("name", "web")),
      Object("replicaset", "prod", "rs2", Label("name", "web")),
      Object("replicaset", "prod", "rs3", Label("name", "api")),
      Object("pod", "prod", "pod1", Label("job-name", "web")),
      Object("pod", "prod", "pod2", Label("job-name", "web")),
      Object("pod", "dev", "pod3", Label("job-name", "web")) }

Children == {o \in objects : o.kind \in ChildKinds}

controllerCreate(child) ==
    /\ child.ns \in namespaces
    /\ ~Present(child.kind, child.ns, child.name)
    /\ Cardinality(Children) < MaxChildren
    /\ objects' = objects \cup {child}
    /\ UNCHANGED <<namespaces, pc, args, log, ret, listed, items, opsLeft>>

----------------------------------------------------------------------------
\* One caller working through the operations, beside the controllers.

Caller == 1

Next ==
    \/ \E namespace \in Namespaces \cup NewNamespaces : createNamespace(Caller, namespace)
    \/ createNamespaceCreate(Caller)
    \/ \E kind \in Kinds, name \in Names, namespace \in Namespaces :
         checkResourceExist(Caller, kind, name, namespace)
    \/ \E kind \in Kinds, namespace \in Namespaces, resourceData \in Payloads :
         createResource(Caller, kind, namespace, resourceData)
    \/ \E kind \in Kinds, name \in Names, namespace \in Namespaces :
         destroyResource(Caller, kind, name, namespace)
    \/ listReplicaSets(Caller)
    \/ deleteReplicaSet(Caller)
    \/ listPods(Caller)
    \/ deletePod(Caller)
    \/ Finish(Caller)
    \/ \E child \in ChildUniverse : controllerCreate(child)

Spec == Init /\ [][Next]_vars

\* Several callers ensuring namespaces at the same time.
NextRace ==
    \/ \E p \in Procs, namespace \in Namespaces \cup NewNamespaces :
         createNamespace(p, namespace)
    \/ \E p \in Procs : createNamespaceCreate(p)
    \/ \E p \in Procs : Finish(p)

SpecRace == Init /\ [][NextRace]_vars

----------------------------------------------------------------------------
\* What the claims speak of.

RecognizedKinds ==
    {"deployment", "service", "job", "persistentvolumeclaim", "configmap", "petset"}

Range(s) == {s[i] : i \in 1..Len(s)}

\* Caller p has returned from op.
Returned(p, op) == pc[p] = "done" /\ args[p].op = op

\* A structured API status error whose code is 404.
Is404Status(err) == err.type = "status" /\ err.code = 404

\* The calls of log[p] with this verb on this kind.
CallsOf(p, verb, kind) ==
    {i \in 1..Len(log[p]) : log[p][i].verb = verb /\ log[p][i].kind = kind}

\* C1: for a kind outside the recognized set, checkResourceExist,
\* createResource and destroyResource return UnsupportedResource(kind), with
\* false for the existence, and issue no API call, whatever the name, the
\* namespace and the payload.
C1_UnsupportedKind ==
    \A p \in Procs :
      ( /\ args[p].op \in {"checkResourceExist", "createResource", "destroyResource"}
        /\ args[p].kind \notin RecognizedKinds )
      => /\ pc[p] = "done"
         /\ ret[p] = Result(FALSE, UnsupportedResource(args[p].kind))
         /\ log[p] = <<>>

C1_Witness ==
    \E p \in Procs :
      /\ Returned(p, "destroyResource")
      /\ args[p].kind = "ingress"
      /\ ret[p].err = UnsupportedResource("ingress")

\* C2: for a recognized kind checkResourceExist issues exactly one call, a
\* get of that kind for (namespace, name), and returns (true, nil) when the
\* get succeeds, (false, nil) when it fails with a status error of code 404,
\* and (false, err) with the get's own error otherwise.
C2_ExistsClassifies ==
    \A p \in Procs :
      (Returned(p, "checkResourceExist") /\ args[p].kind \in RecognizedKinds)
      => /\ Len(log[p]) = 1
         /\ log[p][1] = GetCall(args[p].kind, args[p].ns, args[p].name, log[p][1].res)
         /\ ret[p] = IF log[p][1].res = Nil THEN Result(TRUE, Nil)
                     ELSE IF Is404Status(log[p][1].res) THEN Result(FALSE, Nil)
                     ELSE Result(FALSE, log[p][1].res)

C2_Witness ==
    \E p \in Procs :
      /\ Returned(p, "checkResourceExist")
      /\ args[p].kind = "configmap"
      /\ log[p][1].res = NotFound
      /\ ret[p] = Result(FALSE, Nil)

\* C3: createNamespace first gets the namespace; it issues exactly one
\* namespace create when the get fails with a 404 status error, and none when
\* the get succeeds (it returns nil) or fails otherwise (it returns the get's
\* error); it never issues a namespace delete.
C3_EnsureNamespace ==
    \A p \in Procs :
      Returned(p, "createNamespace")
      => LET get == log[p][1] IN
         /\ get = GetCall("namespace", "", args[p].name, get.res)
         /\ CallsOf(p, "delete", "namespace") = {}
         /\ get.res = Nil => log[p] = <<get>> /\ ret[p].err = Nil
         /\ (get.res # Nil /\ ~Is404Status(get.res))
              => log[p] = <<get>> /\ ret[p].err = get.res
         /\ Is404Status(get.res)
              => /\ Len(log[p]) = 2
                 /\ log[p][2] = CreateCall("namespace", "", NamespacePayload(args[p].name),
                                           log[p][2].res)
                 /\ ret[p].err = log[p][2].res

C3_Witness ==
    \E p \in Procs :
      /\ Returned(p, "createNamespace")
      /\ Cardinality(CallsOf(p, "create", "namespace")) = 1
      /\ ret[p].err = Nil
      /\ args[p].name \in namespaces

\* The calls a cascade issues when no step of it fails: the delete of the
\* parent, the list of the children by selector, a delete of each listed
\* child in the order of the list.
CascadeCalls(parent, child, key, ns, name, found) ==
    <<DeleteCall(parent, ns, name, 0, Nil), ListCall(child, ns, Label(key, name), Nil)>>
    \o [i \in 1..Len(found) |-> DeleteCall(child, ns, found[i], 0, Nil)]

\* No step of the cascade of p has failed: every call issued so far has
\* succeeded, and key=name parses as a label selector.
NothingFailed(p, key) ==
    /\ \A i \in 1..Len(log[p]) : log[p][i].res = Nil
    /\ ParseSelector(key, args[p].name).err = Nil

\* The list call of a cascade failed: nothing follows it and its error is
\* what the operation returns.
ListFailed(p, child) ==
    (Len(log[p]) >= 2 /\ log[p][2].res # Nil)
    => /\ Len(log[p]) = 2
       /\ log[p][2].verb = "list"
       /\ ret[p].err = log[p][2].res
       /\ CallsOf(p, "delete", child) = {}

\* C4: destroyResource of deployment N in NS, when no call fails (the parse
\* of the selector name=N among them), issues
\* delete deployment N, list replica sets in NS with selector name=N, and one
\* delete for each replica set the list returned, in its order, and no
\* other; when the list fails no replica set is deleted and the list's error
\* is returned.
C4_DeploymentCascade ==
    \A p \in Procs :
      (Returned(p, "destroyResource") /\ args[p].kind = "deployment")
      => /\ NothingFailed(p, "name")
              => log[p] = CascadeCalls("deployment", "replicaset", "name",
                                       args[p].ns, args[p].name, listed[p])
         /\ ListFailed(p, "replicaset")

C4_Witness ==
    \E p \in Procs :
      /\ Returned(p, "destroyResource")
      /\ args[p].kind = "deployment"
      /\ ret[p].err = Nil
      /\ Len(listed[p]) = 2
      /\ Len(log[p]) = 4

\* C5: destroyResource of job N in NS, when no call fails (the parse of the
\* selector job-name=N among them), issues delete job N, list pods in NS
\* with selector job-name=N, and one delete for each pod the list returned,
\* in its order, and no other; when the list fails no pod is deleted and the
\* list's error is returned.
C5_JobCascade ==
    \A p \in Procs :
      (Returned(p, "destroyResource") /\ args[p].kind = "job")
      => /\ NothingFailed(p, "job-name")
              => log[p] = CascadeCalls("job", "pod", "job-name",
                                       args[p].ns, args[p].name, listed[p])
         /\ ListFailed(p, "pod")

C5_Witness ==
    \E p \in Procs :
      /\ Returned(p, "destroyResource")
      /\ args[p].kind = "job"
      /\ ret[p].err = Nil
      /\ Len(listed[p]) = 2
      /\ Len(log[p]) = 4

\* C6: in a cascade the first failing call is the last call: a failed parent
\* delete is the only call, a failed child delete is followed by no other
\* delete, the failed call's error is what the operation returns, and no
\* call creates anything.
C6_FirstFailureAborts ==
    \A p \in Procs :
      (args[p].op = "destroyResource" /\ args[p].kind \in CascadeKinds)
      => /\ \A i \in 1..Len(log[p]) :
              /\ log[p][i].verb # "create"
              /\ log[p][i].res # Nil
                   => /\ i = Len(log[p])
                      /\ pc[p] = "done"
                      /\ ret[p].err = log[p][i].res
         /\ (Len(log[p]) >= 1 /\ log[p][1].res # Nil) => Len(log[p]) = 1

C6_Witness ==
    \E p \in Procs :
      /\ Returned(p, "destroyResource")
      /\ args[p].kind = "deployment"
      /\ Len(listed[p]) = 2
      /\ Len(log[p]) = 3
      /\ log[p][3].verb = "delete"
      /\ log[p][3].res = InternalError
      /\ ret[p].err = InternalError

\* C7: destroyResource of a service, persistentvolumeclaim, configmap or
\* petset issues exactly one call, a delete of that kind for the name in the
\* namespace with grace period zero, and returns that delete's result.
C7_SimpleDestroy ==
    \A p \in Procs :
      (Returned(p, "destroyResource") /\ args[p].kind \in SimpleKinds)
      => /\ Len(log[p]) = 1
         /\ log[p][1] = DeleteCall(args[p].kind, args[p].ns, args[p].name, 0, log[p][1].res)
         /\ ret[p].err = log[p][1].res

C7_Witness ==
    \E p \in Procs :
      /\ Returned(p, "destroyResource")
      /\ args[p].kind = "petset"
      /\ ret[p].err = Nil
      /\ ~Present("petset", args[p].ns, args[p].name)

\* A returned createResource of a recognized kind has issued one call, the
\* create of that kind with its payload, and returned its result.
C8_Returned ==
    \A p \in Procs :
      (Returned(p, "createResource") /\ args[p].kind \in RecognizedKinds)
      => /\ Len(log[p]) = 1
         /\ log[p][1] = CreateCall(args[p].kind, args[p].ns,
                                   [type |-> args[p].kind, name |-> args[p].name],
                                   log[p][1].res)
         /\ ret[p].err = log[p][1].res

\* A createResource for an object that exists returns an error and leaves
\* the cluster as it was.
C8_Step ==
    \A p \in Procs :
      ( /\ pc[p] = "idle"
        /\ pc'[p] = "done"
        /\ args'[p].op = "createResource"
        /\ args'[p].kind \in RecognizedKinds
        /\ Present(args'[p].kind, args'[p].ns, args'[p].name) )
      => ret'[p].err # Nil /\ objects' = objects

\* C8: createResource of a recognized kind with a payload of its type issues
\* exactly one call, a create of that kind in the namespace with that
\* payload, and returns the create's result; it checks nothing first, so
\* when the object exists already the operation returns an error.
C8_CreateOnly == []C8_Returned /\ [][C8_Step]_vars

C8_Witness ==
    \E p \in Procs :
      /\ Returned(p, "createResource")
      /\ args[p].kind = "service"
      /\ ret[p].err = AlreadyExists

\* The child kind and the selector key of a cascade.
ChildKindOf(kind) == IF kind = "deployment" THEN "replicaset" ELSE "pod"
SelectorKeyOf(kind) == IF kind = "deployment" THEN "name" ELSE "job-name"

\* The children in the cluster that match the cascade of p and were not in
\* its list: they were created after the list call returned.
LateChildren(p) ==
    {o \in Matching(ChildKindOf(args[p].kind), args[p].ns,
                    Label(SelectorKeyOf(args[p].kind), args[p].name)) :
       o.name \notin Range(listed[p])}

\* C9: a cascade deletes only the children of its one list: for a matching
\* child created after the list returned no delete is issued, and when no
\* call failed the operation returns nil all the same, with one child delete
\* per listed child.
C9_SnapshotOnly ==
    \A p \in Procs :
      ( /\ args[p].op = "destroyResource"
        /\ args[p].kind \in CascadeKinds
        /\ Len(log[p]) >= 2 /\ log[p][2].res = Nil )
      => /\ \A o \in LateChildren(p) : \A i \in 1..Len(log[p]) :
              ~(log[p][i].verb = "delete" /\ log[p][i].kind = o.kind /\ log[p][i].name = o.name)
         /\ (pc[p] = "done" /\ \A i \in 1..Len(log[p]) : log[p][i].res = Nil)
              => /\ ret[p].err = Nil
                 /\ Len(log[p]) = 2 + Len(listed[p])

C9_Witness ==
    \E p \in Procs :
      /\ Returned(p, "destroyResource")
      /\ args[p].kind = "job"
      /\ ret[p].err = Nil
      /\ Len(listed[p]) = 1
      /\ LateChildren(p) # {}

\* C10: two callers running createNamespace for the same namespace, absent
\* for both, against a cluster that meets no failure of its own: the
\* namespace exists in the end, exactly one create succeeded, and both
\* callers return nil.
C10_BothReturnNil ==
    \A p, q \in Procs :
      ( /\ p # q
        /\ Returned(p, "createNamespace") /\ Returned(q, "createNamespace")
        /\ args[p].name = args[q].name
        /\ log[p][1].res = NotFound /\ log[q][1].res = NotFound
        /\ \A i \in 1..Len(log[p]) : log[p][i].res \notin Faults
        /\ \A i \in 1..Len(log[q]) : log[q][i].res \notin Faults )
      => /\ args[p].name \in namespaces
         /\ ret[p].err = Nil /\ ret[q].err = Nil
         /\ Cardinality({r \in {p, q} : log[r][Len(log[r])] =
              CreateCall("namespace", "", NamespacePayload(args[r].name), Nil)}) = 1

====
